---- MODULE Spec2Model ----
(***************************************************************************)
(* Model of xh-task: an external sort / merge / count engine.              *)
(*                                                                         *)
(* The program (main.go) builds a Sorter, runs CreateSortedCountFile and   *)
(* closes the Sorter.  CreateSortedCountFile (the bucketed variant) splits *)
(* input.txt into sorted runs, merges the runs while counting consecutive  *)
(* equal lines, appends every (value, count) pair to the bucket file of    *)
(* its count and finally copies the buckets, largest count first, to       *)
(* output.txt.                                                             *)
(* The single-pass variant (sorter/sort.go) merges the same way but writes *)
(* every finished (value, count) record straight to output.txt.            *)
(*                                                                         *)
(* Strings are sequences of byte values.  Files are sequences of lines     *)
(* (each line stored without its "\n"); lines stay below bufio's buffer    *)
(* size and hold no "\r", so ReadLine returns a stored line unchanged.     *)
(***************************************************************************)
EXTENDS Integers, Sequences, FiniteSets, TLC

\* ---------------------------------------------------------------- bounds
MaxLineLen == 1
MaxInputLen == 3
MaxChunkSize == 3
MaxLongInputLen == 5

\* ------------------------------------------------------- program constants
MinChunkSize == 2
TAB == 9
Zero == 48

Alphabet == {97, 98}

Lines == UNION {[1..n -> Alphabet] : n \in 0..MaxLineLen}

Inputs == UNION {[1..n -> Lines] : n \in 0..MaxInputLen}

NoFile == <<"absent">>

\* Longer inputs, over the empty line and one other line.
ShortLines == {<<>>, <<97>>}

LongInputs == UNION {[1..n -> ShortLines] : n \in 0..MaxLongInputLen}

VARIABLES
    pc,                 \* position of the process
    variant,            \* which CreateSortedCountFile the program is built with
    run,                \* how many times the program has been started
    input,              \* the lines of input.txt
    chunkSize,          \* Sorter.chunkSize
    tmpDir,             \* does the temporary directory exist
    inPos,              \* lines of input.txt consumed by the splitter
    fCnt,               \* loop counter of the splitter, the next sub-file number
    subNumbers,         \* the number in the name of each run's file
    subFiles,           \* Sorter.subFiles: the sorted runs, in creation order
    readerPos,          \* lines consumed from each run's reader
    lines,              \* the current line of each run
    fileCount,          \* number of open files
    currentLineValue,
    duplicateLineCount,
    subFilesWithCount,  \* Sorter.subFilesWithCount: count -> bucket file
    keys,               \* sorted bucket keys
    keyIdx,             \* index i of the write loop
    bucketPos,          \* lines consumed from each bucket's reader
    outBuf,             \* bufio.Writer of output.txt
    outputFile,         \* content of output.txt, NoFile while it does not exist
    err,                \* error returned by CreateSortedCountFile ("" for nil)
    closeCalls,         \* number of calls of Sorter.Close in this process
    closeAttempted,     \* handles Close called file.Close on
    closeFailed,        \* handles whose file.Close returned an error
    closeRet,           \* what Close returned
    exitCode,           \* exit status of the process, -1 while it runs
    emitted,            \* the (data, count) arguments of writeToFileWithCount
    selected,           \* the lines selected by the merge loop, in order
    prev                \* chunk size and output of the previous completed process

vars == <<pc, variant, run, input, chunkSize, tmpDir, inPos, fCnt, subNumbers, subFiles, readerPos, lines,
          fileCount, currentLineValue, duplicateLineCount, subFilesWithCount,
          keys, keyIdx, bucketPos, outBuf, outputFile, err, closeCalls,
          closeAttempted, closeFailed, closeRet, exitCode, emitted, selected,
          prev>>

sorterVars == <<inPos, fCnt, subNumbers, subFiles, readerPos, lines, fileCount, currentLineValue,
                duplicateLineCount, subFilesWithCount, keys, keyIdx, bucketPos,
                outBuf>>

closeVars == <<closeCalls, closeAttempted, closeFailed, closeRet>>

histVars == <<emitted, selected>>

\* ---------------------------------------------------------- pure helpers

\* Go's string comparison a < b: byte-wise lexicographic.
RECURSIVE StrLess(_, _)
StrLess(a, b) ==
    IF b = <<>> THEN FALSE
    ELSE IF a = <<>> THEN TRUE
    ELSE IF a[1] # b[1] THEN a[1] < b[1]
    ELSE StrLess(Tail(a), Tail(b))

\* Insert a string into an ascending list of strings.
RECURSIVE InsertSorted(_, _)
InsertSorted(x, s) ==
    IF s = <<>> THEN <<x>>
    ELSE IF StrLess(x, s[1]) THEN <<x>> \o s
    ELSE <<s[1]>> \o InsertSorted(x, Tail(s))

\* sort.Strings(chunk)
RECURSIVE SortStrings(_)
SortStrings(chunk) ==
    IF chunk = <<>> THEN <<>>
    ELSE InsertSorted(chunk[Len(chunk)], SortStrings(SubSeq(chunk, 1, Len(chunk) - 1)))

\* strconv of %d for a non-negative count
RECURSIVE Itoa(_)
Itoa(n) ==
    IF n < 10 THEN <<Zero + n>>
    ELSE Itoa(n \div 10) \o <<Zero + (n % 10)>>

\* fmt.Sprintf("%s\t%d\n", data, count) without the final "\n"
FormatRecord(data, count) == data \o <<TAB>> \o Itoa(count)

Min(a, b) == IF a < b THEN a ELSE b

\* ------------------------------------------------------------------ Init

Init ==
    /\ pc = "New"
    /\ variant = "bucketed"
    /\ run = 1
    /\ input \in Inputs
    /\ chunkSize = 0
    /\ tmpDir = FALSE
    /\ inPos = 0
    /\ fCnt = 0
    /\ subNumbers = <<>>
    /\ subFiles = <<>>
    /\ readerPos = <<>>
    /\ lines = <<>>
    /\ fileCount = 0
    /\ currentLineValue = <<>>
    /\ duplicateLineCount = 1
    /\ subFilesWithCount = <<>>
    /\ keys = <<>>
    /\ keyIdx = 0
    /\ bucketPos = <<>>
    /\ outBuf = <<>>
    /\ outputFile = NoFile
    /\ err = ""
    /\ closeCalls = 0
    /\ closeAttempted = {}
    /\ closeFailed = {}
    /\ closeRet = "none"
    /\ exitCode = -1
    /\ emitted = <<>>
    /\ selected = <<>>
    /\ prev = <<>>

\* The program started on one of the longer inputs.
InitLong ==
    /\ pc = "New"
    /\ variant = "bucketed"
    /\ run = 1
    /\ input \in LongInputs
    /\ chunkSize = 0
    /\ tmpDir = FALSE
    /\ inPos = 0
    /\ fCnt = 0
    /\ subNumbers = <<>>
    /\ subFiles = <<>>
    /\ readerPos = <<>>
    /\ lines = <<>>
    /\ fileCount = 0
    /\ currentLineValue = <<>>
    /\ duplicateLineCount = 1
    /\ subFilesWithCount = <<>>
    /\ keys = <<>>
    /\ keyIdx = 0
    /\ bucketPos = <<>>
    /\ outBuf = <<>>
    /\ outputFile = NoFile
    /\ err = ""
    /\ closeCalls = 0
    /\ closeAttempted = {}
    /\ closeFailed = {}
    /\ closeRet = "none"
    /\ exitCode = -1
    /\ emitted = <<>>
    /\ selected = <<>>
    /\ prev = <<>>

\* The error is recorded and the function carries on.
ReturnErrAndContinue(e) ==
    /\ err' = e
    /\ UNCHANGED pc

\* CreateSortedCountFile returns the error e.
ReturnErr(e) ==
    /\ pc' = "Returned"
    /\ err' = e

\* ------------------------------------------------------------ main / New

\* main: parse chunkSize (>= 2) and construct the Sorter.
New ==
    /\ pc = "New"
    /\ \E c \in MinChunkSize..MaxChunkSize, ok \in BOOLEAN :
          IF ok
          THEN /\ chunkSize' = c
               /\ tmpDir' = TRUE
               /\ pc' = "Open"
               /\ UNCHANGED exitCode
          ELSE /\ UNCHANGED <<chunkSize, tmpDir>>
               /\ pc' = "Exited"
               /\ exitCode' = 1
    /\ UNCHANGED <<variant, run, input, sorterVars, outputFile, err, closeVars, histVars, prev>>

\* ------------------------------------------------------ splitFileToChunks

\* os.Open(file)
OpenInput ==
    /\ pc = "Open"
    /\ \E ok \in BOOLEAN :
          IF ok THEN pc' = "Split" /\ UNCHANGED err
          ELSE ReturnErr("open input")
    /\ UNCHANGED <<variant, run, input, chunkSize, tmpDir, sorterVars, outputFile,
                   closeVars, exitCode, histVars, prev>>

\* The last line of the sorted chunk is not written to the run.
NewSortedSubFileShort(chunk) ==
    SubSeq(SortStrings(chunk), 1, Len(chunk) - 1)

\* newSortedSubFile: the content of the new run
NewSortedSubFile(chunk) == SortStrings(chunk)

\* One iteration of the outer loop that reads a non-empty chunk.
SplitChunk ==
    /\ pc = "Split"
    /\ inPos < Len(input)
    /\ LET last == Min(inPos + chunkSize, Len(input))
           chunk == SubSeq(input, inPos + 1, last)
       IN \E outcome \in {"ok", "read", "subfile"} :
            CASE outcome = "ok" ->
                   /\ inPos' = last
                   /\ subFiles' = Append(subFiles, NewSortedSubFile(chunk))
                   /\ subNumbers' = Append(subNumbers, fCnt)
                   /\ fCnt' = fCnt + 1
                   /\ UNCHANGED <<pc, err>>
              [] outcome = "read" ->
                   /\ ReturnErr("read input")
                   /\ UNCHANGED <<inPos, subFiles, subNumbers, fCnt>>
              [] outcome = "subfile" ->
                   /\ inPos' = last
                   /\ ReturnErr("new sub file")
                   /\ UNCHANGED <<subFiles, subNumbers, fCnt>>
    /\ UNCHANGED <<variant, run, input, chunkSize, tmpDir, readerPos, lines, fileCount,
                   currentLineValue, duplicateLineCount, subFilesWithCount,
                   keys, keyIdx, bucketPos, outBuf, outputFile, closeVars,
                   exitCode, histVars, prev>>

\* The output file is created as soon as the splitter is done.
SplitDoneCreatesOutput ==
    /\ pc = "Split"
    /\ inPos = Len(input)
    /\ \E ok \in BOOLEAN :
          IF ok
          THEN /\ readerPos' = [i \in 1..Len(subFiles) |-> 0]
               /\ pc' = IF variant = "single" THEN "SCreateOut" ELSE "Prime"
               /\ outputFile' = <<>>
               /\ UNCHANGED err
          ELSE /\ ReturnErr("read input")
               /\ UNCHANGED <<readerPos, outputFile>>
    /\ UNCHANGED <<variant, run, input, chunkSize, tmpDir, inPos, fCnt, subNumbers, subFiles, lines, fileCount,
                   currentLineValue, duplicateLineCount, subFilesWithCount,
                   keys, keyIdx, bucketPos, outBuf, closeVars,
                   exitCode, histVars, prev>>

\* The iteration that reads an empty chunk: break, return getSubFileReaders().
SplitDone ==
    /\ pc = "Split"
    /\ inPos = Len(input)
    /\ \E ok \in BOOLEAN :
          IF ok
          THEN /\ readerPos' = [i \in 1..Len(subFiles) |-> 0]
               /\ pc' = IF variant = "single" THEN "SCreateOut" ELSE "Prime"
               /\ UNCHANGED err
          ELSE /\ ReturnErr("read input")
               /\ UNCHANGED readerPos
    /\ UNCHANGED <<variant, run, input, chunkSize, tmpDir, inPos, fCnt, subNumbers, subFiles, lines, fileCount,
                   currentLineValue, duplicateLineCount, subFilesWithCount,
                   keys, keyIdx, bucketPos, outBuf, outputFile, closeVars,
                   exitCode, histVars, prev>>

\* -------------------------------------------------- CreateSortedCountFile

\* Read the first line from each sub-file.
ReadFirstLines ==
    /\ pc = "Prime"
    /\ \E ok \in BOOLEAN :
          IF ok /\ \A i \in 1..Len(subFiles) : Len(subFiles[i]) > 0
          THEN /\ lines' = [i \in 1..Len(subFiles) |-> subFiles[i][1]]
               /\ readerPos' = [i \in 1..Len(subFiles) |-> 1]
               /\ fileCount' = Len(subFiles)
               /\ currentLineValue' = <<>>
               /\ duplicateLineCount' = 1
               /\ pc' = "Merge"
               /\ UNCHANGED err
          ELSE /\ Len(subFiles) > 0
               /\ ReturnErr("read first line")
               /\ UNCHANGED <<lines, readerPos, fileCount, currentLineValue,
                              duplicateLineCount>>
    /\ UNCHANGED <<variant, run, input, chunkSize, tmpDir, inPos, fCnt, subNumbers, subFiles,
                   subFilesWithCount, keys, keyIdx, bucketPos, outBuf,
                   outputFile, closeVars, exitCode, histVars, prev>>

\* Find the minimum line: the scan over lines, from index i on.
RECURSIVE FindMinFrom(_, _, _, _)
FindMinFrom(ls, i, minLine, minIndex) ==
    IF i > Len(ls) THEN [minLine |-> minLine, minIndex |-> minIndex]
    ELSE IF ls[i] # <<>> /\ (minLine = <<>> \/ StrLess(ls[i], minLine))
         THEN FindMinFrom(ls, i + 1, ls[i], i)
         ELSE FindMinFrom(ls, i + 1, minLine, minIndex)

\* minLine and minIndex after the scan (minIndex is 1-based here).
FindMin(ls) == FindMinFrom(ls, 1, <<>>, 1)

\* The bucket files after a successful writeToFileWithCount(data, count).
BucketsAfterWrite(files, data, count) ==
    IF count \in DOMAIN files
    THEN [files EXCEPT ![count] = Append(@, FormatRecord(data, count))]
    ELSE (count :> <<FormatRecord(data, count)>>) @@ files

\* writeToFileWithCount(data, count); outcome is "ok", "create" (os.Create
\* failed) or "write" (WriteString failed, after the file was registered).
WriteToFileWithCount(data, count, outcome) ==
    /\ outcome = "create" => count \notin DOMAIN subFilesWithCount
    /\ emitted' = Append(emitted, <<data, count>>)
    /\ subFilesWithCount' =
          CASE outcome = "ok" -> BucketsAfterWrite(subFilesWithCount, data, count)
            [] outcome = "create" -> subFilesWithCount
            [] outcome = "write" ->
                 IF count \in DOMAIN subFilesWithCount THEN subFilesWithCount
                 ELSE (count :> <<>>) @@ subFilesWithCount

\* The end of a run clears its line but leaves fileCount as it is.
AdvanceCursorKeepsCount(mi) ==
    IF readerPos[mi] < Len(subFiles[mi])
    THEN /\ lines' = [lines EXCEPT ![mi] = subFiles[mi][readerPos[mi] + 1]]
         /\ readerPos' = [readerPos EXCEPT ![mi] = @ + 1]
         /\ UNCHANGED fileCount
    ELSE /\ lines' = [lines EXCEPT ![mi] = <<>>]
         /\ UNCHANGED <<fileCount, readerPos>>

\* Read the next line from the sub-file mi; at io.EOF decrease fileCount.
AdvanceCursor(mi) ==
    IF readerPos[mi] < Len(subFiles[mi])
    THEN /\ lines' = [lines EXCEPT ![mi] = subFiles[mi][readerPos[mi] + 1]]
         /\ readerPos' = [readerPos EXCEPT ![mi] = @ + 1]
         /\ UNCHANGED fileCount
    ELSE /\ fileCount' = fileCount - 1
         /\ lines' = [lines EXCEPT ![mi] = <<>>]
         /\ UNCHANGED readerPos

\* One iteration of the merge loop.
MergeStep ==
    /\ pc = "Merge"
    /\ fileCount > 0
    /\ LET m == FindMin(lines)
           mi == m.minIndex
           flush == currentLineValue # <<>> /\ currentLineValue # m.minLine
       IN \E wr \in {"ok", "create", "write"}, rd \in {"ok", "read"} :
            /\ ~flush => wr = "ok"
            /\ selected' = Append(selected, <<m.minLine, mi>>)
            /\ IF flush
               THEN WriteToFileWithCount(currentLineValue, duplicateLineCount, wr)
               ELSE UNCHANGED <<subFilesWithCount, emitted>>
            /\ IF wr # "ok"
               THEN /\ ReturnErr("write to file with count")
                    /\ UNCHANGED <<currentLineValue, duplicateLineCount, lines,
                                   readerPos, fileCount>>
               ELSE /\ currentLineValue' =
                          IF currentLineValue = <<>> \/ flush THEN m.minLine
                          ELSE currentLineValue
                    /\ duplicateLineCount' =
                          IF currentLineValue = <<>> THEN duplicateLineCount
                          ELSE IF flush THEN 1
                          ELSE duplicateLineCount + 1
                    /\ IF rd = "read"
                       THEN /\ ReturnErr("read sub file")
                            /\ UNCHANGED <<lines, readerPos, fileCount>>
                       ELSE /\ UNCHANGED <<pc, err>>
                            /\ AdvanceCursor(mi)
    /\ UNCHANGED <<variant, run, input, chunkSize, tmpDir, inPos, fCnt, subNumbers, subFiles, keys, keyIdx,
                   bucketPos, outBuf, outputFile, closeVars, exitCode, prev>>

\* don't forget last row
LastRow ==
    /\ pc = "Merge"
    /\ fileCount = 0
    /\ \E wr \in {"ok", "create", "write"} :
          /\ WriteToFileWithCount(currentLineValue, duplicateLineCount, wr)
          /\ IF wr = "ok" THEN pc' = "Rewind" /\ UNCHANGED err
             ELSE ReturnErr("write to file with count")
    /\ UNCHANGED <<variant, run, input, chunkSize, tmpDir, inPos, fCnt, subNumbers, subFiles, readerPos,
                   lines, fileCount, currentLineValue, duplicateLineCount, keys,
                   keyIdx, bucketPos, outBuf, outputFile, closeVars, exitCode,
                   selected, prev>>

\* The orders in which a range over a map with key set S can visit the keys.
IterationOrders(S) ==
    {f \in [1..Cardinality(S) -> S] : \A i, j \in 1..Cardinality(S) : f[i] = f[j] => i = j}

RECURSIVE InsertInt(_, _)
InsertInt(x, s) ==
    IF s = <<>> THEN <<x>>
    ELSE IF x < s[1] THEN <<x>> \o s
    ELSE <<s[1]>> \o InsertInt(x, Tail(s))

\* The keys are left in the order the range over the map produced.
SortIntsOmitted(ks) == ks

\* sort.Ints(keys)
RECURSIVE SortInts(_)
SortInts(ks) ==
    IF ks = <<>> THEN <<>>
    ELSE InsertInt(ks[Len(ks)], SortInts(SubSeq(ks, 1, Len(ks) - 1)))

\* Collect the keys, rewind every bucket, sort the keys, build the readers.
RewindBuckets ==
    /\ pc = "Rewind"
    /\ \E order \in IterationOrders(DOMAIN subFilesWithCount), ok \in BOOLEAN :
          IF ok
          THEN /\ keys' = SortInts(order)
               /\ bucketPos' = [k \in DOMAIN subFilesWithCount |-> 0]
               /\ pc' = "CreateOut"
               /\ UNCHANGED err
          ELSE /\ ReturnErr("seek")
               /\ UNCHANGED <<keys, bucketPos>>
    /\ UNCHANGED <<variant, run, input, chunkSize, tmpDir, inPos, fCnt, subNumbers, subFiles, readerPos,
                   lines, fileCount, currentLineValue, duplicateLineCount,
                   subFilesWithCount, keyIdx, outBuf, outputFile, closeVars,
                   exitCode, histVars, prev>>

\* os.Create("output.txt") and the buffered writer on it.
CreateOutput ==
    /\ pc = "CreateOut"
    /\ \E ok \in BOOLEAN :
          IF ok
          THEN /\ outputFile' = <<>>
               /\ outBuf' = <<>>
               /\ keyIdx' = Len(keys)
               /\ pc' = "Write"
               /\ UNCHANGED err
          ELSE /\ ReturnErr("create output")
               /\ UNCHANGED <<outputFile, outBuf, keyIdx>>
    /\ UNCHANGED <<variant, run, input, chunkSize, tmpDir, inPos, fCnt, subNumbers, subFiles, readerPos,
                   lines, fileCount, currentLineValue, duplicateLineCount,
                   subFilesWithCount, keys, bucketPos, closeVars, exitCode,
                   histVars, prev>>

\* write from bigger to lower duplicate-counter: one ReadLine of the write loop.
WriteStep ==
    /\ pc = "Write"
    /\ keyIdx >= 1
    /\ LET k == keys[keyIdx]
       IN \E outcome \in {"ok", "read", "write"} :
            CASE outcome = "ok" ->
                   /\ UNCHANGED <<pc, err>>
                   /\ IF bucketPos[k] < Len(subFilesWithCount[k])
                      THEN /\ outBuf' = Append(outBuf, subFilesWithCount[k][bucketPos[k] + 1])
                           /\ bucketPos' = [bucketPos EXCEPT ![k] = @ + 1]
                           /\ UNCHANGED keyIdx
                      ELSE /\ keyIdx' = keyIdx - 1
                           /\ UNCHANGED <<outBuf, bucketPos>>
              [] outcome = "read" ->
                   /\ ReturnErr("read bucket")
                   /\ UNCHANGED <<outBuf, bucketPos, keyIdx>>
              [] outcome = "write" ->
                   /\ bucketPos[k] < Len(subFilesWithCount[k])
                   /\ bucketPos' = [bucketPos EXCEPT ![k] = @ + 1]
                   /\ ReturnErr("write output")
                   /\ UNCHANGED <<outBuf, keyIdx>>
    /\ UNCHANGED <<variant, run, input, chunkSize, tmpDir, inPos, fCnt, subNumbers, subFiles, readerPos,
                   lines, fileCount, currentLineValue, duplicateLineCount,
                   subFilesWithCount, keys, outputFile, closeVars, exitCode,
                   histVars, prev>>

\* The last row is appended to its bucket only when the output is flushed.
FlushOutputLateRow ==
    /\ pc = "Write"
    /\ keyIdx = 0
    /\ \E ok \in BOOLEAN :
          IF ok
          THEN /\ outputFile' = outputFile \o outBuf
               /\ outBuf' = <<>>
               /\ subFilesWithCount' =
                     BucketsAfterWrite(subFilesWithCount, currentLineValue, duplicateLineCount)
               /\ pc' = "Stat"
               /\ UNCHANGED err
          ELSE /\ ReturnErr("flush")
               /\ UNCHANGED <<outputFile, outBuf, subFilesWithCount>>
    /\ UNCHANGED <<variant, run, input, chunkSize, tmpDir, inPos, fCnt, subNumbers,
                   subFiles, readerPos, lines, fileCount, currentLineValue,
                   duplicateLineCount, keys, keyIdx, bucketPos, closeVars,
                   exitCode, histVars, prev>>

\* Flush the output buffer
FlushOutput ==
    /\ pc = "Write"
    /\ keyIdx = 0
    /\ \E ok \in BOOLEAN :
          IF ok
          THEN /\ outputFile' = outputFile \o outBuf
               /\ outBuf' = <<>>
               /\ pc' = "Stat"
               /\ UNCHANGED err
          ELSE /\ ReturnErr("flush")
               /\ UNCHANGED <<outputFile, outBuf>>
    /\ UNCHANGED <<variant, run, input, chunkSize, tmpDir, inPos, fCnt, subNumbers, subFiles, readerPos,
                   lines, fileCount, currentLineValue, duplicateLineCount,
                   subFilesWithCount, keys, keyIdx, bucketPos, closeVars,
                   exitCode, histVars, prev>>

\* outputFile.Stat() and the return
StatOutput ==
    /\ pc = "Stat"
    /\ \E ok \in BOOLEAN : ReturnErr(IF ok THEN "" ELSE "stat")
    /\ UNCHANGED <<variant, run, input, chunkSize, tmpDir, sorterVars, outputFile,
                   closeVars, exitCode, histVars, prev>>

\* ------------------------------------------------------------ Close / main

\* The file handles the Sorter tracks.
TrackedHandles ==
    {<<"sub", i>> : i \in 1..Len(subFiles)}
        \cup {<<"cnt", k>> : k \in DOMAIN subFilesWithCount}

\* Close gives up at the first handle whose Close fails.
CloseStopsAtFirstError(failing, rmOk) ==
    /\ closeCalls' = closeCalls + 1
    /\ closeAttempted' = IF failing = {} THEN TrackedHandles ELSE failing
    /\ closeFailed' = failing
    /\ tmpDir' = IF failing = {} THEN ~rmOk ELSE TRUE
    /\ closeRet' = IF failing = {} /\ rmOk THEN "nil" ELSE "err"

\* Sorter.Close: failing is the set of handles whose Close fails, rmOk tells
\* whether os.RemoveAll succeeds.
Close(failing, rmOk) ==
    /\ closeCalls' = closeCalls + 1
    /\ closeAttempted' = TrackedHandles
    /\ closeFailed' = failing
    /\ tmpDir' = ~rmOk
    /\ closeRet' = IF rmOk THEN "nil" ELSE "err"

\* main after CreateSortedCountFile returned: log.Fatal on an error, else
\* return from main, which runs the deferred Close.
MainFinish ==
    /\ pc = "Returned"
    /\ pc' = "Exited"
    /\ IF err # ""
       THEN /\ exitCode' = 1
            /\ UNCHANGED <<closeVars, tmpDir>>
       ELSE /\ exitCode' = 0
            /\ \E failing \in SUBSET TrackedHandles, rmOk \in BOOLEAN :
                  Close(failing, rmOk)
    /\ UNCHANGED <<variant, run, input, chunkSize, sorterVars, outputFile, err,
                   histVars, prev>>

\* The program is started a second time on the same input.txt.
Rerun ==
    /\ pc = "Exited"
    /\ run = 1
    /\ exitCode = 0
    /\ prev' = [chunkSize |-> chunkSize, output |-> outputFile]
    /\ run' = 2
    /\ pc' = "New"
    /\ chunkSize' = 0
    /\ tmpDir' = FALSE
    /\ inPos' = 0
    /\ fCnt' = 0
    /\ subNumbers' = <<>>
    /\ subFiles' = <<>>
    /\ readerPos' = <<>>
    /\ lines' = <<>>
    /\ fileCount' = 0
    /\ currentLineValue' = <<>>
    /\ duplicateLineCount' = 1
    /\ subFilesWithCount' = <<>>
    /\ keys' = <<>>
    /\ keyIdx' = 0
    /\ bucketPos' = <<>>
    /\ outBuf' = <<>>
    /\ err' = ""
    /\ closeCalls' = 0
    /\ closeAttempted' = {}
    /\ closeFailed' = {}
    /\ closeRet' = "none"
    /\ exitCode' = -1
    /\ emitted' = <<>>
    /\ selected' = <<>>
    /\ UNCHANGED <<variant, input, outputFile>>

\* The single-pass build of the program is started on the same input.txt.
RerunSingle ==
    /\ pc = "Exited"
    /\ run = 1
    /\ exitCode = 0
    /\ prev' = [chunkSize |-> chunkSize, output |-> outputFile]
    /\ run' = 2
    /\ pc' = "New"
    /\ chunkSize' = 0
    /\ tmpDir' = FALSE
    /\ inPos' = 0
    /\ fCnt' = 0
    /\ subNumbers' = <<>>
    /\ subFiles' = <<>>
    /\ readerPos' = <<>>
    /\ lines' = <<>>
    /\ fileCount' = 0
    /\ currentLineValue' = <<>>
    /\ duplicateLineCount' = 1
    /\ subFilesWithCount' = <<>>
    /\ keys' = <<>>
    /\ keyIdx' = 0
    /\ bucketPos' = <<>>
    /\ outBuf' = <<>>
    /\ err' = ""
    /\ closeCalls' = 0
    /\ closeAttempted' = {}
    /\ closeFailed' = {}
    /\ closeRet' = "none"
    /\ exitCode' = -1
    /\ emitted' = <<>>
    /\ selected' = <<>>
    /\ variant' = "single"
    /\ UNCHANGED <<input, outputFile>>

\* ------------------------------- CreateSortedCountFile, single-pass variant

\* os.Create("output.txt") and the buffered writer on it, before the merge.
CreateOutputSingle ==
    /\ pc = "SCreateOut"
    /\ \E ok \in BOOLEAN :
          IF ok
          THEN /\ outputFile' = <<>>
               /\ outBuf' = <<>>
               /\ pc' = "SPrime"
               /\ UNCHANGED err
          ELSE /\ ReturnErr("create output")
               /\ UNCHANGED <<outputFile, outBuf>>
    /\ UNCHANGED <<variant, run, input, chunkSize, tmpDir, inPos, fCnt, subNumbers,
                   subFiles, readerPos, lines, fileCount, currentLineValue,
                   duplicateLineCount, subFilesWithCount, keys, keyIdx,
                   bucketPos, closeVars, exitCode, histVars, prev>>

\* Read the first line from each sub-file; an error ends the process
\* through log.Fatal.
ReadFirstLinesSingle ==
    /\ pc = "SPrime"
    /\ \E ok \in BOOLEAN :
          IF ok /\ \A i \in 1..Len(subFiles) : Len(subFiles[i]) > 0
          THEN /\ lines' = [i \in 1..Len(subFiles) |-> subFiles[i][1]]
               /\ readerPos' = [i \in 1..Len(subFiles) |-> 1]
               /\ fileCount' = Len(subFiles)
               /\ currentLineValue' = <<>>
               /\ duplicateLineCount' = 1
               /\ pc' = "SMerge"
               /\ UNCHANGED <<err, exitCode>>
          ELSE /\ Len(subFiles) > 0
               /\ pc' = "Exited"
               /\ err' = "read first line"
               /\ exitCode' = 1
               /\ UNCHANGED <<lines, readerPos, fileCount, currentLineValue,
                              duplicateLineCount>>
    /\ UNCHANGED <<variant, run, input, chunkSize, tmpDir, inPos, fCnt, subNumbers,
                   subFiles, subFilesWithCount, keys, keyIdx, bucketPos, outBuf,
                   outputFile, closeVars, histVars, prev>>

\* One iteration of the merge loop; a finished value goes to the output.
MergeStepSingle ==
    /\ pc = "SMerge"
    /\ fileCount > 0
    /\ LET m == FindMin(lines)
           mi == m.minIndex
           flush == currentLineValue # <<>> /\ currentLineValue # m.minLine
       IN \E wr \in {"ok", "write"}, rd \in {"ok", "read"} :
            /\ ~flush => wr = "ok"
            /\ selected' = Append(selected, <<m.minLine, mi>>)
            /\ outBuf' = IF flush /\ wr = "ok"
                         THEN Append(outBuf, FormatRecord(currentLineValue, duplicateLineCount))
                         ELSE outBuf
            /\ IF wr # "ok"
               THEN /\ ReturnErr("write output")
                    /\ UNCHANGED <<currentLineValue, duplicateLineCount, lines,
                                   readerPos, fileCount>>
               ELSE /\ currentLineValue' =
                          IF currentLineValue = <<>> \/ flush THEN m.minLine
                          ELSE currentLineValue
                    /\ duplicateLineCount' =
                          IF currentLineValue = <<>> THEN duplicateLineCount
                          ELSE IF flush THEN 1
                          ELSE duplicateLineCount + 1
                    /\ IF rd = "read"
                       THEN /\ ReturnErr("read sub file")
                            /\ UNCHANGED <<lines, readerPos, fileCount>>
                       ELSE /\ UNCHANGED <<pc, err>>
                            /\ AdvanceCursor(mi)
    /\ UNCHANGED <<variant, run, input, chunkSize, tmpDir, inPos, fCnt, subNumbers,
                   subFiles, subFilesWithCount, keys, keyIdx, bucketPos,
                   outputFile, closeVars, exitCode, emitted, prev>>

\* write line with deduplicate-count as one row, flush, return
LastRowSingle ==
    /\ pc = "SMerge"
    /\ fileCount = 0
    /\ \E outcome \in {"ok", "write", "flush"} :
          CASE outcome = "ok" ->
                 /\ outputFile' = outputFile \o outBuf
                                     \o <<FormatRecord(currentLineValue, duplicateLineCount)>>
                 /\ outBuf' = <<>>
                 /\ ReturnErr("")
            [] outcome = "write" ->
                 /\ ReturnErr("write output")
                 /\ UNCHANGED <<outputFile, outBuf>>
            [] outcome = "flush" ->
                 /\ outBuf' = Append(outBuf, FormatRecord(currentLineValue, duplicateLineCount))
                 /\ ReturnErr("flush")
                 /\ UNCHANGED outputFile
    /\ UNCHANGED <<variant, run, input, chunkSize, tmpDir, inPos, fCnt, subNumbers,
                   subFiles, readerPos, lines, fileCount, currentLineValue,
                   duplicateLineCount, subFilesWithCount, keys, keyIdx,
                   bucketPos, closeVars, exitCode, histVars, prev>>

Next ==
    \/ New
    \/ OpenInput
    \/ SplitChunk
    \/ SplitDone
    \/ ReadFirstLines
    \/ MergeStep
    \/ LastRow
    \/ RewindBuckets
    \/ CreateOutput
    \/ WriteStep
    \/ FlushOutput
    \/ StatOutput
    \/ MainFinish
    \/ Rerun

Spec == Init /\ [][Next]_vars

SpecLong == InitLong /\ [][Next]_vars

\* The steps of either build of the program.
NextVariants ==
    \/ Next
    \/ RerunSingle
    \/ CreateOutputSingle
    \/ ReadFirstLinesSingle
    \/ MergeStepSingle
    \/ LastRowSingle

\* The bucketed build runs first, then either build runs on the same input.
SpecVariants == Init /\ [][NextVariants]_vars

\* The process is sequential and keeps running until it exits.
SpecLongFair == InitLong /\ [][Next]_vars /\ WF_vars(Next)

\* ------------------------------------------------ vocabulary of the claims

\* Number of occurrences of the line v in the sequence of lines s.
Occurrences(v, s) == Cardinality({i \in 1..Len(s) : s[i] = v})

\* The distinct lines of a sequence of lines.
Distinct(s) == {s[i] : i \in 1..Len(s)}

\* Position of the last TAB of a record.
LastTab(rec) == CHOOSE i \in 1..Len(rec) : rec[i] = TAB /\ \A j \in (i + 1)..Len(rec) : rec[j] # TAB

RECURSIVE Atoi(_)
Atoi(d) ==
    IF d = <<>> THEN 0
    ELSE Atoi(SubSeq(d, 1, Len(d) - 1)) * 10 + (d[Len(d)] - Zero)

\* The value and the count a record of a bucket or of output.txt carries.
RecordValue(rec) == SubSeq(rec, 1, LastTab(rec) - 1)
RecordCount(rec) == Atoi(SubSeq(rec, LastTab(rec) + 1, Len(rec)))

\* a <= b in lexicographic order
StrLeq(a, b) == a = b \/ StrLess(a, b)

\* The merge loop and the last-row flush are over.
MergeDone == pc \in {"Rewind", "CreateOut", "Write", "Stat"}
                \/ (pc \in {"Returned", "Exited"} /\ err = "" /\ chunkSize # 0)

\* CreateSortedCountFile returned nil.
Completed == pc \in {"Returned", "Exited"} /\ err = "" /\ chunkSize # 0

\* The input has at least one line and no empty line.
PlainInput == input # <<>> /\ <<>> \notin Distinct(input)

\* Indexes of the emissions of the value v.
EmissionsOf(v) == {i \in 1..Len(emitted) : emitted[i][1] = v}

\* ------------------------------------------------------------------ claims

\* C1 (count correctness): when CreateSortedCountFile has completed, every
\* distinct line v of the input was passed exactly once to
\* writeToFileWithCount, with the number of occurrences of v in the input.
C1_CountCorrectness ==
    Completed =>
        \A v \in Distinct(input) :
            /\ Cardinality(EmissionsOf(v)) = 1
            /\ \A i \in EmissionsOf(v) : emitted[i][2] = Occurrences(v, input)

\* C2 (descending-count output order): in the final output the counts of the
\* records never increase, and records of equal count are in ascending
\* lexicographic order of their values.
C2_OutputOrder ==
    Completed =>
        \A i, j \in 1..Len(outputFile) :
            i < j =>
                /\ RecordCount(outputFile[i]) >= RecordCount(outputFile[j])
                /\ RecordCount(outputFile[i]) = RecordCount(outputFile[j])
                      => StrLeq(RecordValue(outputFile[i]), RecordValue(outputFile[j]))

\* C3 (empty input): with zero input lines the splitter makes no run, no
\* (value, count) pair is emitted and the final output is empty.
C3_EmptyInput ==
    input = <<>> =>
        /\ subFiles = <<>>
        /\ emitted = <<>>
        /\ Completed => outputFile = <<>>

\* C4 (chunk-capacity invariance): a second run of the program on the same
\* input, with any chunk capacity, produces the output of the first run.
C4_CapacityInvariance ==
    (run = 2 /\ Completed) => outputFile = prev.output

\* C5 (teardown on every outcome): once the process has exited after
\* CreateSortedCountFile returned, success or error, Close was called exactly
\* once and the temporary directory is gone unless its removal failed.
C5_TeardownAlways ==
    (pc = "Exited" /\ chunkSize # 0) =>
        /\ closeCalls = 1
        /\ closeRet = "nil" => ~tmpDir

\* C6 (deterministic output): a second run on the same input with the same
\* chunk capacity produces the same output.txt, whatever order the ranges
\* over subFilesWithCount visit the keys in.
C6_Deterministic ==
    (run = 2 /\ Completed /\ chunkSize = prev.chunkSize) => outputFile = prev.output

C6_Witness ==
    /\ run = 2
    /\ Completed
    /\ chunkSize = prev.chunkSize
    /\ Cardinality(DOMAIN subFilesWithCount) >= 2
    /\ outputFile = prev.output

\* C7 (Close is failure-tolerant): after Close, file.Close was called on every
\* tracked run handle and bucket handle, whichever of them failed, and Close
\* returned an error exactly when the temporary directory could not be removed.
C7_CloseTolerant ==
    closeCalls > 0 =>
        /\ closeAttempted = TrackedHandles
        /\ closeFailed \subseteq closeAttempted
        /\ closeRet = "err" <=> tmpDir
        /\ closeRet \in {"nil", "err"}

C7_Witness ==
    /\ closeCalls = 1
    /\ closeFailed # {}
    /\ closeFailed # TrackedHandles
    /\ \E i \in 1..Len(subFiles) : <<"sub", i>> \in closeFailed
    /\ closeAttempted = TrackedHandles
    /\ closeRet = "nil"
    /\ ~tmpDir

\* C8 (I/O failure is terminal): the step on which an open, read, write or
\* seek fails makes CreateSortedCountFile return; once it has returned an
\* error nothing is appended to a bucket, nothing is written to the output
\* and no step of CreateSortedCountFile is taken again.
C8_FailureTerminal ==
    [][/\ (err = "" /\ err' # "") => pc' = "Returned"
       /\ err # "" =>
             /\ subFilesWithCount' = subFilesWithCount
             /\ emitted' = emitted
             /\ outBuf' = outBuf
             /\ outputFile' = outputFile
             /\ err' = err
             /\ pc' = "Exited"]_vars

C8_Witness ==
    /\ pc = "Exited"
    /\ err = "read sub file"
    /\ DOMAIN subFilesWithCount # {}
    /\ outputFile = NoFile

\* C9 (bucket invariant): in every reachable state every record of the bucket
\* of count k carries a value that occurs exactly k times in the input, and
\* no value has records in two different buckets.
C9_BucketInvariant ==
    /\ \A k \in DOMAIN subFilesWithCount :
          \A n \in 1..Len(subFilesWithCount[k]) :
              Occurrences(RecordValue(subFilesWithCount[k][n]), input) = k
    /\ \A k1, k2 \in DOMAIN subFilesWithCount :
          k1 # k2 =>
              \A n1 \in 1..Len(subFilesWithCount[k1]), n2 \in 1..Len(subFilesWithCount[k2]) :
                  RecordValue(subFilesWithCount[k1][n1]) # RecordValue(subFilesWithCount[k2][n2])

\* C10 (empty-string lines are ordinary lines): for an input with an empty
\* line, once the merge is over every line of every run was read, the empty
\* value was emitted exactly once with its number of occurrences, and every
\* other value was emitted exactly once with its number of occurrences.
C10_EmptyLines ==
    (MergeDone /\ <<>> \in Distinct(input)) =>
        /\ \A i \in 1..Len(subFiles) : readerPos[i] = Len(subFiles[i])
        /\ \A v \in Distinct(input) :
              /\ Cardinality(EmissionsOf(v)) = 1
              /\ \A i \in EmissionsOf(v) : emitted[i][2] = Occurrences(v, input)

\* --------------------------------------------- the same on plain inputs

\* On an input with at least one line and no empty line the merge counts
\* every value once, with its number of occurrences.
PlainCountCorrectness ==
    (PlainInput /\ MergeDone) =>
        /\ \A v \in Distinct(input) :
              /\ Cardinality(EmissionsOf(v)) = 1
              /\ \A i \in EmissionsOf(v) : emitted[i][2] = Occurrences(v, input)
        /\ \A i \in 1..Len(emitted) : emitted[i][1] \in Distinct(input)

PlainOutputOrder == PlainInput => C2_OutputOrder

PlainCapacityInvariance == PlainInput => C4_CapacityInvariance

PlainBucketInvariant == PlainInput => C9_BucketInvariant

\* ------------------------------------------------------- the merge cursors

\* Number of merge-loop iterations that read from run i.
ReadsInMerge(i) == Cardinality({n \in 1..Len(selected) : selected[n][2] = i})

\* Number of times the reader of run i has returned io.EOF: the first line
\* is read before the loop, every iteration that selects i reads once more.
EndOfRunCount(i) ==
    IF 1 + ReadsInMerge(i) > Len(subFiles[i])
    THEN 1 + ReadsInMerge(i) - Len(subFiles[i])
    ELSE 0

\* The runs whose reader has not returned io.EOF yet.
ActiveRuns == {i \in 1..Len(subFiles) : EndOfRunCount(i) = 0}

\* C11 (cursor exhaustion): at the top of every merge-loop iteration no run's
\* reader has returned end-of-run more than once (an exhausted cursor is not
\* read again, fileCount is decremented once per run) and fileCount is the
\* number of runs that still have unread or currently held lines.
C11_CursorExhaustion ==
    pc = "Merge" =>
        /\ \A i \in 1..Len(subFiles) : EndOfRunCount(i) <= 1
        /\ fileCount = Cardinality(ActiveRuns)

\* C12 (global merge order): the lines selected by successive merge-loop
\* iterations are in non-decreasing lexicographic order.
C12_MergeOrder ==
    \A m, n \in 1..Len(selected) :
        m < n => StrLeq(selected[m][1], selected[n][1])

PlainCursorExhaustion == PlainInput => C11_CursorExhaustion

PlainMergeOrder == PlainInput => C12_MergeOrder

\* The active cursors that hold the smallest line held by an active cursor.
SmallestHolders ==
    {i \in ActiveRuns : \A j \in ActiveRuns : StrLeq(lines[i], lines[j])}

LowestOf(S) == CHOOSE i \in S : \A j \in S : i <= j

\* C13 (stable tie-break): a merge-loop iteration that starts with two or
\* more active cursors holding the same smallest line selects, and reads
\* from, the one of them with the lowest run number.
C13_StableTieBreak ==
    [][(/\ pc = "Merge"
        /\ Len(selected') = Len(selected) + 1
        /\ Cardinality(SmallestHolders) >= 2)
          => selected'[Len(selected')][2] = LowestOf(SmallestHolders)]_vars

\* The same when no active cursor holds an empty line.
PlainStableTieBreak ==
    [][(/\ pc = "Merge"
        /\ Len(selected') = Len(selected) + 1
        /\ \A i \in ActiveRuns : lines[i] # <<>>
        /\ Cardinality(SmallestHolders) >= 2)
          => selected'[Len(selected')][2] = LowestOf(SmallestHolders)]_vars

\* ------------------------------------------------------------ the splitter

\* splitFileToChunks has returned its readers.
SplitSucceeded ==
    \/ pc \in {"Prime", "Merge", "Rewind", "CreateOut", "Write", "Stat"}
    \/ /\ pc \in {"Returned", "Exited"}
       /\ chunkSize # 0
       /\ err \notin {"open input", "read input", "new sub file"}

\* ceil(n / c)
CeilDiv(n, c) == (n + c - 1) \div c

\* The lines of all runs, run after run.
RECURSIVE Flatten(_)
Flatten(files) ==
    IF files = <<>> THEN <<>>
    ELSE files[1] \o Flatten(Tail(files))

\* C14 (splitter shape): after splitFileToChunks, an input of n lines has
\* ceil(n / C) runs, numbered 0, 1, 2, ... in creation order; every run is
\* non-empty and holds at most C lines, every run but the last exactly C, and
\* the runs together hold exactly the lines of the input.
C14_SplitterShape ==
    SplitSucceeded =>
        /\ Len(subFiles) = CeilDiv(Len(input), chunkSize)
        /\ subNumbers = [i \in 1..Len(subFiles) |-> i - 1]
        /\ \A i \in 1..Len(subFiles) :
              /\ Len(subFiles[i]) >= 1
              /\ Len(subFiles[i]) <= chunkSize
              /\ i < Len(subFiles) => Len(subFiles[i]) = chunkSize
        /\ Len(Flatten(subFiles)) = Len(input)
        /\ \A v \in Distinct(input) :
              Occurrences(v, Flatten(subFiles)) = Occurrences(v, input)

C14_Witness ==
    /\ SplitSucceeded
    /\ Len(subFiles) = 2
    /\ Len(subFiles[1]) = chunkSize
    /\ Len(subFiles[2]) < chunkSize
    /\ subNumbers = <<0, 1>>
    /\ <<>> \in Distinct(input)

\* ----------------------------------------------------------- the two passes

\* The step appends to a bucket (or creates one).
Appended ==
    \E k \in DOMAIN subFilesWithCount' :
        \/ k \notin DOMAIN subFilesWithCount
        \/ Len(subFilesWithCount'[k]) > Len(subFilesWithCount[k])

\* The step rewinds the buckets and builds their readers.
Rewound == pc = "Rewind" /\ pc' = "CreateOut"

\* The step reads a line from a bucket.
BucketRead ==
    \E k \in DOMAIN bucketPos :
        k \in DOMAIN bucketPos' /\ bucketPos'[k] > bucketPos[k]

\* C15 (two-pass ordering): a step that appends to a bucket is a step of the
\* merge (loop or last row) taken before any bucket was rewound or read; a
\* step that rewinds or reads a bucket is taken after the merge loop has
\* ended; from the rewind on nothing is appended.
C15_TwoPass ==
    [][/\ Appended =>
             /\ pc = "Merge"
             /\ keys = <<>>
             /\ bucketPos = <<>>
             /\ outBuf = <<>>
       /\ (Rewound \/ BucketRead) =>
             /\ pc \in {"Rewind", "Write"}
             /\ fileCount = 0
       /\ pc \in {"Rewind", "CreateOut", "Write", "Stat"} => ~Appended]_vars

C15_Witness ==
    /\ pc = "Write"
    /\ Cardinality(DOMAIN subFilesWithCount) >= 2
    /\ keyIdx = 0
    /\ \A k \in DOMAIN bucketPos : bucketPos[k] = Len(subFilesWithCount[k]) /\ bucketPos[k] >= 1
    /\ Len(emitted) >= 2

\* -------------------------------------------------------------- termination

RECURSIVE UnreadLines(_)
UnreadLines(i) ==
    IF i = 0 THEN 0
    ELSE (Len(subFiles[i]) - readerPos[i]) + UnreadLines(i - 1)

\* What is left to the merge loop: the lines not read yet plus fileCount.
MergeMeasure == UnreadLines(Len(subFiles)) + fileCount

\* C16 (termination): every iteration of the merge loop that does not return
\* consumes one line of a run or decreases fileCount, neither of which can
\* go below zero, and the merge loop is always left, for the rewind or for
\* an error return.
C16_Termination ==
    /\ [][(pc = "Merge" /\ pc' = "Merge") =>
             /\ MergeMeasure' = MergeMeasure - 1
             /\ MergeMeasure' >= 0
             /\ \/ fileCount' = fileCount - 1
                \/ \E i \in 1..Len(subFiles) : readerPos'[i] = readerPos[i] + 1]_vars
    /\ (pc = "Merge") ~> (pc \in {"Rewind", "Returned"})

C16_Witness ==
    /\ pc = "Rewind"
    /\ Len(subFiles) = 2
    /\ Len(selected) >= 3
    /\ \E i \in 1..Len(subFiles) : EndOfRunCount(i) = 2

\* ------------------------------------------------------------ the variants

\* The set of records of a file.
Records(file) == {file[i] : i \in 1..Len(file)}

\* The single-pass build has completed with the chunk size of the bucketed
\* run before it.
SingleAfterBucketed ==
    /\ variant = "single"
    /\ Completed
    /\ chunkSize = prev.chunkSize

\* C17 (variant equivalence): for the same input and capacity the output of
\* the single-pass variant holds the same set of records as the output of
\* the bucketed variant, in ascending lexicographic order of value.
C17_VariantEquivalence ==
    SingleAfterBucketed =>
        /\ Records(outputFile) = Records(prev.output)
        /\ \A i, j \in 1..Len(outputFile) :
              i < j => StrLeq(RecordValue(outputFile[i]), RecordValue(outputFile[j]))

\* The two outputs hold the same records, each as often in one as in the other.
VariantSameRecords ==
    SingleAfterBucketed =>
        /\ Len(outputFile) = Len(prev.output)
        /\ \A r \in Records(outputFile) \cup Records(prev.output) :
              Occurrences(r, outputFile) = Occurrences(r, prev.output)

PlainVariantEquivalence == PlainInput => C17_VariantEquivalence

\* ------------------------------------------------------------ the output file

\* output.txt as the process found it.
StartOutput == IF run = 1 THEN NoFile ELSE prev.output

\* The errors of splitting, merging, bucketing and bucket rewind.
EarlyErrors ==
    {"open input", "read input", "new sub file", "read first line",
     "write to file with count", "read sub file", "seek"}

\* C18 (output untouched on early failure): in the bucketed variant, until
\* the buckets are rewound, and after a failure of splitting, merging,
\* bucketing or rewinding, output.txt is as the process found it (not
\* created, not truncated, not written) and nothing is buffered for it.
C18_OutputUntouched ==
    (/\ variant = "bucketed"
     /\ \/ pc \in {"New", "Open", "Split", "Prime", "Merge", "Rewind", "CreateOut"}
        \/ pc \in {"Returned", "Exited"} /\ err \in EarlyErrors)
        => outputFile = StartOutput /\ outBuf = <<>>

C18_Witness ==
    /\ variant = "bucketed"
    /\ run = 2
    /\ pc = "Exited"
    /\ err = "seek"
    /\ Len(prev.output) >= 2
    /\ outputFile = prev.output
====
